---- MODULE Spec2Model ----
(***************************************************************************)
(* Model of RouteOptimizer (src/optimizer.py): visit distribution over the *)
(* working days of a quarter, time-bounded clustering, nearest-neighbour   *)
(* ordering, first-fit assignment of days to employees, and the optimize   *)
(* pipeline that chains them.                                              *)
(*                                                                         *)
(* Representation.                                                         *)
(*  - A date is the offset (in days) from start_date; '%Y-%m-%d' strings   *)
(*    compare in calendar order, so sorting dates is sorting offsets.      *)
(*  - A point is a record [id, lon, duration, frequency]; lat is the       *)
(*    loader's default 0 for every point, so the haversine distance of two *)
(*    points is R * |lon1 - lon2| * pi / 180 and is ordered as             *)
(*    |lon1 - lon2|.  Durations are whole minutes.                         *)
(*  - A Python dict is a record [keys, val]: keys in insertion order and   *)
(*    the mapping itself.                                                  *)
(*  - 'Сотрудник_k' is the integer k.  The travel-time floats of a route   *)
(*    are not carried; no operation branches on them.                      *)
(***************************************************************************)
EXTENDS Integers, Sequences, FiniteSets, TLC

\* ---------------------------------------------------------------- bounds
MaxPoints == 2          \* points in the catalogue of a pipeline run
MaxDayPoints == 3       \* visit instances of one day handed to the clusterer
MaxRoutes == 4          \* routes handed directly to the assigner
MaxDates == 3           \* distinct dates among those routes
MaxSingleDays == 10     \* longest list of one-route-per-date inputs
MaxCap == 5             \* largest max_days_per_week handed directly to the assigner

\* ------------------------------------------------------ program constants
HorizonDays == 90       \* range(90)
WeekendStart == 5       \* weekday() < 5
FillPercent == 80       \* max_minutes * 0.8
DefaultEmployee == 1    \* optimize_routes_for_day(..., 1)

\* ------------------------------------------------------------ input sets
Durations == {30, 60}
Frequencies == {0, 1, 70}
DayLons == {0, 1, 3}
DayDurations == {0, 30, 60, 100}
HoursChoices == {1, 2}
DayHoursChoices == {-1, 0, 1, 2}
CapChoices == {2, 5}
StartDows == {0, 5}     \* a Monday and a Saturday: 65 and 64 working days

\* --------------------------------------------------------------- helpers
Abs(x) == IF x < 0 THEN -x ELSE x

\* sum(s[lo..hi]) and the concatenation of ss[lo..hi], by halves
RECURSIVE SumRange(_, _, _)
SumRange(s, lo, hi) ==
    IF lo > hi THEN 0
    ELSE IF lo = hi THEN s[lo]
    ELSE SumRange(s, lo, (lo + hi) \div 2) + SumRange(s, (lo + hi) \div 2 + 1, hi)

SumSeq(s) == SumRange(s, 1, Len(s))

RECURSIVE FlattenRange(_, _, _)
FlattenRange(ss, lo, hi) ==
    IF lo > hi THEN <<>>
    ELSE IF lo = hi THEN ss[lo]
    ELSE FlattenRange(ss, lo, (lo + hi) \div 2)
            \o FlattenRange(ss, (lo + hi) \div 2 + 1, hi)

Flatten(ss) == FlattenRange(ss, 1, Len(ss))

Range(s) == {s[i] : i \in DOMAIN s}

Count(x, s) == Cardinality({i \in DOMAIN s : s[i] = x})

Remove(s, k) == [i \in 1..(Len(s) - 1) |-> IF i < k THEN s[i] ELSE s[i + 1]]

EmptyDict == [keys |-> <<>>, val |-> <<>>]

HasKey(d, k) == k \in DOMAIN d.val

\* d[k]
Get(d, k) == d.val[k]

\* d[k].append(x), creating d[k] = [] first when k is a new key
DictAppend(d, k, x) ==
    IF HasKey(d, k)
    THEN [keys |-> d.keys, val |-> [d.val EXCEPT ![k] = Append(@, x)]]
    ELSE [keys |-> Append(d.keys, k), val |-> (k :> <<x>>) @@ d.val]

\* list(s): the sequence s as an explicit tuple
List(s) == s \o <<>>

\* sorted(s, key=...): ascending by key, equal keys keeping their order.
\* The element at position i of s lands after every element of smaller key
\* and every earlier element of equal key.
SortByKey(s, keys) ==
    LET rank == List([i \in DOMAIN s |->
                    1 + Cardinality({j \in DOMAIN s :
                                        \/ keys[j] < keys[i]
                                        \/ keys[j] = keys[i] /\ j < i})])
    IN List([k \in DOMAIN s |-> s[CHOOSE i \in DOMAIN s : rank[i] = k]])

\* --------------------------------------------------------- GeoMetrics
\* calculate_distance with lat1 = lat2 = 0, in degrees of arc
CalculateDistance(lon1, lon2) == Abs(lon2 - lon1)

\* ------------------------------------------------- cluster_points_by_time
\* distance of p to the mean longitude of pts, scaled by Len(pts)
CentroidKey(p, pts) ==
    Abs(Len(pts) * p.lon - SumSeq([i \in DOMAIN pts |-> pts[i].lon]))

PointsSorted(pts) ==
    SortByKey(pts, [i \in DOMAIN pts |-> CentroidKey(pts[i], pts)])

\* the 80% factor left out
OverflowsFullDay(current_time, point_time, max_hours) ==
    100 * (current_time + point_time) > 100 * (max_hours * 60)

\* the running total left out
OverflowsPointOnly(current_time, point_time, max_hours) ==
    100 * point_time > FillPercent * (max_hours * 60)

\* current_time + point_time > max_minutes * 0.8

Overflows(current_time, point_time, max_hours) ==
    100 * (current_time + point_time) > FillPercent * (max_hours * 60)

\* the loop over points_sorted; st = [clusters, current_cluster, current_time]
RECURSIVE ClusterLoop(_, _, _)
ClusterLoop(pts, max_hours, st) ==
    IF pts = <<>> THEN st
    ELSE LET point == Head(pts)
             point_time == point.duration
             nxt == IF Overflows(st.current_time, point_time, max_hours)
                    THEN [clusters |-> IF st.current_cluster # <<>>
                                       THEN Append(st.clusters, st.current_cluster)
                                       ELSE st.clusters,
                          current_cluster |-> <<point>>,
                          current_time |-> point_time]
                    ELSE [clusters |-> st.clusters,
                          current_cluster |-> Append(st.current_cluster, point),
                          current_time |-> st.current_time + point_time]
         IN ClusterLoop(Tail(pts), max_hours, nxt)

\* the last open cluster is not appended
ClusterPointsByTimeNoTail(pts, max_hours) ==
    IF pts = <<>> THEN <<>>
    ELSE ClusterLoop(PointsSorted(pts), max_hours,
                     [clusters |-> <<>>, current_cluster |-> <<>>,
                      current_time |-> 0]).clusters

ClusterPointsByTime(pts, max_hours) ==
    IF pts = <<>> THEN <<>>
    ELSE LET st == ClusterLoop(PointsSorted(pts), max_hours,
                               [clusters |-> <<>>, current_cluster |-> <<>>,
                                current_time |-> 0])
         IN IF st.current_cluster # <<>>
            THEN Append(st.clusters, st.current_cluster)
            ELSE st.clusters

\* ------------------------------------------------------------- solve_tsp
\* min(range(len(unvisited)), key=...): the first index of least distance
NearestIdx(last_point, unvisited) ==
    CHOOSE i \in DOMAIN unvisited :
        /\ \A j \in DOMAIN unvisited :
              CalculateDistance(last_point.lon, unvisited[i].lon)
                 <= CalculateDistance(last_point.lon, unvisited[j].lon)
        /\ \A j \in 1..(i - 1) :
              CalculateDistance(last_point.lon, unvisited[j].lon)
                 > CalculateDistance(last_point.lon, unvisited[i].lon)

RECURSIVE TspLoop(_, _)
TspLoop(route, unvisited) ==
    IF unvisited = <<>> THEN route
    ELSE LET nearest_idx == NearestIdx(route[Len(route)], unvisited)
         IN TspLoop(Append(route, unvisited[nearest_idx]),
                    Remove(unvisited, nearest_idx))

\* unvisited = points instead of points[1:]
SolveTspRevisits(pts) ==
    IF Len(pts) <= 1 THEN pts
    ELSE TspLoop(<<pts[1]>>, pts)

SolveTsp(pts) ==
    IF Len(pts) <= 1 THEN pts
    ELSE TspLoop(<<pts[1]>>, Tail(pts))

\* ----------------------------------------------- optimize_routes_for_day
MakeRoute(optimized_route, employee_id, route_id) ==
    [route_id |-> route_id,
     employee_id |-> employee_id,
     date |-> -1,
     points |-> optimized_route,
     total_points |-> Len(optimized_route),
     service_time_min |-> SumSeq([i \in DOMAIN optimized_route |->
                                     optimized_route[i].duration])]

OptimizeRoutesForDay(day_pts, max_hours, employee_id) ==
    IF day_pts = <<>> THEN <<>>
    ELSE LET cl == SelectSeq(ClusterPointsByTime(day_pts, max_hours),
                             LAMBDA c : c # <<>>)
         IN [k \in DOMAIN cl |-> MakeRoute(SolveTsp(cl[k]), employee_id, k)]

\* ------------------------------------------ distribute_visits_by_quarter
\* quarter_days: the offsets i in range(90) whose weekday() is below 5
QuarterDays(dow) ==
    SelectSeq([i \in 1..HorizonDays |-> i - 1],
              LAMBDA d : (dow + d) % 7 < WeekendStart)

\* one copy of the point per unit of frequency, in catalogue order
ExpandVisits(pts) ==
    Flatten([p \in DOMAIN pts |-> [k \in 1..pts[p].frequency |-> pts[p]]])

\* without the all-zero fallback
AllVisitsNoFallback(pts) == ExpandVisits(pts)

AllVisits(pts) ==
    IF ExpandVisits(pts) = <<>> THEN pts ELSE ExpandVisits(pts)

\* enumerate(all_visits, 1)
DayIndexFromOne(i, days_count) == (i + 1) % days_count

DayIndex(i, days_count) == i % days_count

\* for i, visit in enumerate(all_visits): the iterations lo..hi (0-based)
\* applied in order to d, the first half before the second.  The test on
\* first.keys only makes the first half's dict a value before the second half
\* starts (a dict is never empty after an append); likewise in the loops below.
RECURSIVE DistributeLoop(_, _, _, _, _)
DistributeLoop(all_visits, quarter_days, lo, hi, d) ==
    IF lo > hi THEN d
    ELSE IF lo = hi
    THEN DictAppend(d, quarter_days[DayIndex(lo, Len(quarter_days)) + 1],
                    all_visits[lo + 1])
    ELSE LET first == DistributeLoop(all_visits, quarter_days,
                                     lo, (lo + hi) \div 2, d)
         IN IF first.keys # <<>>
            THEN DistributeLoop(all_visits, quarter_days,
                                (lo + hi) \div 2 + 1, hi, first)
            ELSE first

DistributeVisitsByQuarter(pts, dow) ==
    IF Len(QuarterDays(dow)) = 0 THEN EmptyDict
    ELSE DistributeLoop(AllVisits(pts), QuarterDays(dow),
                        0, Len(AllVisits(pts)) - 1, EmptyDict)

\* -------------------------------------------- assign_routes_to_employees
\* for route in all_routes: the iterations lo..hi applied in order to d
RECURSIVE GroupLoop(_, _, _, _)
GroupLoop(routes, lo, hi, d) ==
    IF lo > hi THEN d
    ELSE IF lo = hi THEN DictAppend(d, routes[lo].date, routes[lo])
    ELSE LET first == GroupLoop(routes, lo, (lo + hi) \div 2, d)
         IN IF first.keys # <<>>
            THEN GroupLoop(routes, (lo + hi) \div 2 + 1, hi, first)
            ELSE first

GroupByDay(routes) == GroupLoop(routes, 1, Len(routes), EmptyDict)

SortedDays(d) == SortByKey(d.keys, d.keys)

EmpDays(emp) == {emp.routes[i].date : i \in DOMAIN emp.routes}

\* <= in place of <
FitsOneMore(emp, day, cap) ==
    Cardinality(EmpDays(emp)) <= cap /\ day \notin EmpDays(emp)

\* len(emp_days) < max_days_per_week and day not in emp_days
Fits(emp, day, cap) ==
    Cardinality(EmpDays(emp)) < cap /\ day \notin EmpDays(emp)

\* route['employee_id'] is left as it was
StampKeepsId(routes, employee_id) == routes

\* for route in day_routes: route['employee_id'] = ...
Stamp(routes, employee_id) ==
    [i \in DOMAIN routes |-> [routes[i] EXCEPT !.employee_id = employee_id]]

\* one pass of the loop over sorted_days; st = [employees, employee_counter]
AssignDayStep(st, day, day_routes, cap) ==
    IF \E e \in DOMAIN st.employees : Fits(st.employees[e], day, cap)
    THEN LET e == CHOOSE k \in DOMAIN st.employees :
                     /\ Fits(st.employees[k], day, cap)
                     /\ \A j \in 1..(k - 1) : ~Fits(st.employees[j], day, cap)
         IN [employees |->
                [st.employees EXCEPT ![e].routes =
                    @ \o Stamp(day_routes, st.employees[e].id)],
             employee_counter |-> st.employee_counter]
    ELSE [employees |->
             Append(st.employees,
                    [id |-> st.employee_counter,
                     name |-> st.employee_counter,
                     routes |-> Stamp(day_routes, st.employee_counter)]),
          employee_counter |-> st.employee_counter + 1]

\* for day in sorted_days: the iterations lo..hi applied in order to st
RECURSIVE AssignLoop(_, _, _, _, _, _)
AssignLoop(days, by_day, cap, lo, hi, st) ==
    IF lo > hi THEN st
    ELSE IF lo = hi
    THEN AssignDayStep(st, days[lo], Get(by_day, days[lo]), cap)
    ELSE LET first == AssignLoop(days, by_day, cap, lo, (lo + hi) \div 2, st)
         IN IF first.employees # <<>>
            THEN AssignLoop(days, by_day, cap, (lo + hi) \div 2 + 1, hi, first)
            ELSE first

FlattenEmployees(emps) == Flatten([e \in DOMAIN emps |-> emps[e].routes])

AssignRoutesToEmployees(routes, cap) ==
    IF routes = <<>> THEN [final_routes |-> <<>>, num_employees |-> 0]
    ELSE LET by_day == GroupByDay(routes)
             st == AssignLoop(SortedDays(by_day), by_day, cap,
                              1, Len(by_day.keys),
                              [employees |-> <<>>, employee_counter |-> 1])
         IN [final_routes |-> FlattenEmployees(st.employees),
             num_employees |-> Len(st.employees)]

\* --------------------------------------------------------------- optimize
SetDate(routes, day) == [i \in DOMAIN routes |-> [routes[i] EXCEPT !.date = day]]

\* step 2 of optimize: the loop over visits_by_day.items()
DayRoutes(vbd, day, max_hours) ==
    IF Get(vbd, day) = <<>> THEN <<>>
    ELSE SetDate(OptimizeRoutesForDay(Get(vbd, day), max_hours, DefaultEmployee),
                 day)

BuildAllRoutes(vbd, max_hours) ==
    Flatten([k \in DOMAIN vbd.keys |-> DayRoutes(vbd, vbd.keys[k], max_hours)])

\* 'Нет рабочих дней для планирования' and 'Не удалось создать маршруты'
NoWorkingDays == [success |-> FALSE, error |-> "no working days"]
NoRoutes == [success |-> FALSE, error |-> "no routes created"]

Summary(routes, n_emp) ==
    [success |-> TRUE,
     error |-> "",
     total_employees |-> n_emp,
     total_routes |-> Len(routes),
     total_points |-> SumSeq([i \in DOMAIN routes |-> Len(routes[i].points)]),
     routes |-> routes]

\* ------------------------------------------------------------------ state
VARIABLES
    points,             \* self.points
    start_dow,          \* weekday() of start_date
    max_hours_per_day,
    max_days_per_week,
    pc,                 \* position of the run
    visits_by_day,      \* optimize: result of step 1
    day_points,         \* argument of cluster_points_by_time
    clusters,           \* result of cluster_points_by_time
    all_routes,         \* optimize: result of step 2 / argument of the assigner
    routes_by_day,      \* assigner locals
    sorted_days,        \* the days the assigner's loop has still to process
    employees,
    employee_counter,
    final_routes,
    num_employees,
    result              \* the dict optimize returns

vars == <<points, start_dow, max_hours_per_day, max_days_per_week, pc,
          visits_by_day, day_points, clusters, all_routes, routes_by_day,
          sorted_days, employees, employee_counter, final_routes,
          num_employees, result>>

inputs == <<points, start_dow, max_hours_per_day, max_days_per_week>>
assigner == <<routes_by_day, sorted_days, employees, employee_counter>>

SeqsUpTo(S, n) == UNION {[1..k -> S] : k \in 0..n}

\* prepare_data: the catalogue; row i has id i and lies at longitude
\* 2^(i-1) - 1 (0, 1, 3, ...), so no two rows share a place
Catalogues ==
    {[i \in DOMAIN c |-> [id |-> i, lon |-> 2 ^ (i - 1) - 1,
                          duration |-> c[i].duration,
                          frequency |-> c[i].frequency]] :
        c \in SeqsUpTo([duration : Durations, frequency : Frequencies],
                       MaxPoints)}

DayPointLists ==
    {[i \in DOMAIN c |-> [id |-> i, lon |-> c[i].lon, duration |-> c[i].duration,
                          frequency |-> 1]] :
        c \in SeqsUpTo([lon : DayLons, duration : DayDurations], MaxDayPoints)}

InputRoute(i, d) ==
    [route_id |-> i, employee_id |-> DefaultEmployee, date |-> d,
     points |-> <<>>, total_points |-> 0, service_time_min |-> 0]

RouteLists ==
    {[i \in DOMAIN ds |-> InputRoute(i, ds[i])] :
        ds \in SeqsUpTo(1..MaxDates, MaxRoutes)
               \cup {[i \in 1..n |-> i] : n \in 0..MaxSingleDays}
               \cup {[i \in 1..n |-> n + 1 - i] : n \in 0..MaxSingleDays}}

Idle ==
    /\ visits_by_day = EmptyDict
    /\ clusters = <<>>
    /\ routes_by_day = EmptyDict
    /\ sorted_days = <<>>
    /\ employees = <<>>
    /\ employee_counter = 1
    /\ final_routes = <<>>
    /\ num_employees = 0
    /\ result = [success |-> FALSE, error |-> "pending"]

\* ------------------------------------------------------- optimize pipeline
Init ==
    /\ points \in Catalogues
    /\ start_dow \in StartDows
    /\ max_hours_per_day \in HoursChoices
    /\ max_days_per_week \in CapChoices
    /\ pc = "start"
    /\ day_points = <<>>
    /\ all_routes = <<>>
    /\ Idle

\* step 1
Distribute ==
    /\ pc = "start"
    /\ visits_by_day' = DistributeVisitsByQuarter(points, start_dow)
    /\ IF visits_by_day'.keys = <<>>
       THEN result' = NoWorkingDays /\ pc' = "done"
       ELSE result' = result /\ pc' = "routes"
    /\ UNCHANGED <<inputs, day_points, clusters, all_routes, assigner,
                   final_routes, num_employees>>

\* step 2
BuildRoutes ==
    /\ pc = "routes"
    /\ all_routes' = BuildAllRoutes(visits_by_day, max_hours_per_day)
    /\ IF all_routes' = <<>>
       THEN result' = NoRoutes /\ pc' = "done"
       ELSE result' = result /\ pc' = "assign"
    /\ UNCHANGED <<inputs, visits_by_day, day_points, clusters, assigner,
                   final_routes, num_employees>>

\* step 3
Assign ==
    /\ pc = "assign"
    /\ LET r == AssignRoutesToEmployees(all_routes, max_days_per_week)
       IN /\ final_routes' = r.final_routes
          /\ num_employees' = r.num_employees
    /\ pc' = "summary"
    /\ UNCHANGED <<inputs, visits_by_day, day_points, clusters, all_routes,
                   assigner, result>>

\* step 4
Summarise ==
    /\ pc = "summary"
    /\ result' = Summary(final_routes, num_employees)
    /\ pc' = "done"
    /\ UNCHANGED <<inputs, visits_by_day, day_points, clusters, all_routes,
                   assigner, final_routes, num_employees>>

Next == Distribute \/ BuildRoutes \/ Assign \/ Summarise

Spec == Init /\ [][Next]_vars

\* ------------------------------- assign_routes_to_employees, day by day
InitAssign ==
    /\ points = <<>>
    /\ start_dow = 0
    /\ max_hours_per_day = 0
    /\ max_days_per_week \in 0..MaxCap
    /\ pc = "group"
    /\ all_routes \in RouteLists
    /\ day_points = <<>>
    /\ Idle

AssignGroup ==
    /\ pc = "group"
    /\ IF all_routes = <<>>
       THEN /\ pc' = "returned"
            /\ UNCHANGED assigner
       ELSE /\ routes_by_day' = GroupByDay(all_routes)
            /\ sorted_days' = SortedDays(routes_by_day')
            /\ employees' = <<>>
            /\ employee_counter' = 1
            /\ pc' = "days"
    /\ UNCHANGED <<inputs, visits_by_day, day_points, clusters, all_routes,
                   final_routes, num_employees, result>>

AssignDay ==
    /\ pc = "days"
    /\ sorted_days # <<>>
    /\ LET st == AssignDayStep([employees |-> employees,
                                employee_counter |-> employee_counter],
                               Head(sorted_days),
                               Get(routes_by_day, Head(sorted_days)),
                               max_days_per_week)
       IN /\ employees' = st.employees
          /\ employee_counter' = st.employee_counter
    /\ sorted_days' = Tail(sorted_days)
    /\ UNCHANGED <<inputs, pc, visits_by_day, day_points, clusters, all_routes,
                   routes_by_day, final_routes, num_employees, result>>

AssignReturn ==
    /\ pc = "days"
    /\ sorted_days = <<>>
    /\ final_routes' = FlattenEmployees(employees)
    /\ num_employees' = Len(employees)
    /\ pc' = "returned"
    /\ UNCHANGED <<inputs, visits_by_day, day_points, clusters, all_routes,
                   assigner, result>>

NextAssign == AssignGroup \/ AssignDay \/ AssignReturn

SpecAssign == InitAssign /\ [][NextAssign]_vars

\* ------------------------------------- one day: clustering, then routes
InitDay ==
    /\ points = <<>>
    /\ start_dow = 0
    /\ max_hours_per_day \in DayHoursChoices
    /\ max_days_per_week = 0
    /\ pc = "cluster"
    /\ all_routes = <<>>
    /\ day_points \in DayPointLists
    /\ Idle

ClusterDay ==
    /\ pc = "cluster"
    /\ clusters' = ClusterPointsByTime(day_points, max_hours_per_day)
    /\ pc' = "day_routes"
    /\ UNCHANGED <<inputs, visits_by_day, day_points, all_routes, assigner,
                   final_routes, num_employees, result>>

RoutesForDay ==
    /\ pc = "day_routes"
    /\ all_routes' = OptimizeRoutesForDay(day_points, max_hours_per_day,
                                          DefaultEmployee)
    /\ pc' = "day_done"
    /\ UNCHANGED <<inputs, visits_by_day, day_points, clusters, assigner,
                   final_routes, num_employees, result>>

NextDay == ClusterDay \/ RoutesForDay

SpecDay == InitDay /\ [][NextDay]_vars

\* ============================================================ properties
Ceil(a, b) == (a + b - 1) \div b

ServiceTime(c) == SumSeq([i \in DOMAIN c |-> c[i].duration])

\* the bag of s is the bag of t
SameBag(s, t) ==
    /\ Len(s) = Len(t)
    /\ \A i \in DOMAIN s : Count(s[i], s) = Count(s[i], t)

\* ------------------------------------------------------------------- C1
\* C1: while assign_routes_to_employees runs, after each day's batch and at
\* the end, every employee holds routes of at most max_days_per_week
\* distinct dates, whatever max_days_per_week the caller passed.
C1_DayCapNeverExceeded ==
    \A e \in DOMAIN employees :
        Cardinality(EmpDays(employees[e])) <= max_days_per_week

\* ------------------------------------------------------------------- C2
Unowned(r) == [r EXCEPT !.employee_id = 0]

Holders(r) ==
    {e \in DOMAIN employees :
        \E k \in DOMAIN employees[e].routes :
            /\ Unowned(employees[e].routes[k]) = Unowned(r)
            /\ employees[e].routes[k].employee_id = employees[e].id}

\* C2: when assign_routes_to_employees returns, routes of one date carry one
\* employee_id, and every input route is in the returned list exactly once,
\* held by exactly one employee and stamped with that employee's id; nothing
\* is added or lost.
C2_DaysWholeRoutesKept ==
    pc = "returned" =>
        /\ \A i, j \in DOMAIN final_routes :
              final_routes[i].date = final_routes[j].date
                 => final_routes[i].employee_id = final_routes[j].employee_id
        /\ Len(final_routes) = Len(all_routes)
        /\ \A i \in DOMAIN all_routes :
              /\ Cardinality({j \in DOMAIN final_routes :
                     Unowned(final_routes[j]) = Unowned(all_routes[i])}) = 1
              /\ Cardinality(Holders(all_routes[i])) = 1

C2_Witness ==
    /\ pc = "returned"
    /\ num_employees >= 2
    /\ \E i, j \in DOMAIN final_routes :
          i # j /\ final_routes[i].date = final_routes[j].date

\* ------------------------------------------------------------------- C7
OneRoutePerDate ==
    \A i, j \in DOMAIN all_routes :
        all_routes[i].date = all_routes[j].date => i = j

\* position of date d among the input's dates in ascending order
DateRank(d) == Cardinality({i \in DOMAIN all_routes : all_routes[i].date <= d})

\* C7: with one route per date on D dates and max_days_per_week = c >= 1 the
\* assigner fills employees first-fit in ascending date order (the k-th date
\* goes to employee ceil(k / c)) and returns ceil(D / c) employees; 10 dates
\* with c = 5 give 2 employees.
C7_FirstFitCeil ==
    (pc = "returned" /\ OneRoutePerDate /\ max_days_per_week >= 1) =>
        /\ num_employees = Ceil(Len(all_routes), max_days_per_week)
        /\ \A j \in DOMAIN final_routes :
              final_routes[j].employee_id =
                 Ceil(DateRank(final_routes[j].date), max_days_per_week)

C7_Witness ==
    /\ pc = "returned"
    /\ OneRoutePerDate
    /\ Len(all_routes) = 10
    /\ max_days_per_week = 5
    /\ num_employees = 2

\* ------------------------------------------------------------------- C6
\* sum of durations <= 0.8 * max_hours * 60, in fifths of a minute
WithinBudget(c) == 5 * ServiceTime(c) <= 4 * (max_hours_per_day * 60)

\* C6: every cluster cluster_points_by_time returns has a duration sum of at
\* most 0.8 * max_hours * 60 minutes unless it is a single point that is
\* over that threshold by itself; such a point is alone in its cluster, and
\* every point of the day is in exactly one cluster.
C6_ClustersWithinBudget ==
    pc # "cluster" =>
        /\ \A k \in DOMAIN clusters :
              \/ WithinBudget(clusters[k])
              \/ Len(clusters[k]) = 1
        /\ \A k \in DOMAIN clusters : \A i \in DOMAIN clusters[k] :
              ~WithinBudget(<<clusters[k][i]>>) => Len(clusters[k]) = 1
        /\ SameBag(day_points, Flatten(clusters))

C6_Witness ==
    /\ pc = "day_routes"
    /\ \E k \in DOMAIN clusters :
          Len(clusters[k]) = 1 /\ ~WithinBudget(clusters[k])
    /\ \E k \in DOMAIN clusters :
          Len(clusters[k]) >= 2 /\ ServiceTime(clusters[k]) > 0

\* ------------------------------------------------------------------- C8
ScenarioA ==
    /\ max_hours_per_day = 2
    /\ Len(day_points) = 3
    /\ \A i \in DOMAIN day_points : day_points[i].duration = 60

\* C8 as stated: the day of Scenario A (durations 60, 60, 60, two hours)
\* gives two routes, the first of at most two points, the second holding
\* the rest.
C8_ScenarioATwoRoutes ==
    (pc = "day_done" /\ ScenarioA) =>
        /\ Len(all_routes) = 2
        /\ all_routes[1].total_points <= 2
        /\ all_routes[1].total_points + all_routes[2].total_points = 3

\* C8 amended: the day of Scenario A gives three routes of one point each
\* (60 + 60 minutes is over the 96-minute threshold), together holding the
\* three points of the day.
C8_ScenarioAThreeRoutes ==
    (pc = "day_done" /\ ScenarioA) =>
        /\ Len(clusters) = 3
        /\ Len(all_routes) = 3
        /\ \A k \in DOMAIN all_routes :
              all_routes[k].total_points = 1 /\ Len(all_routes[k].points) = 1
        /\ SameBag(day_points,
                   Flatten([k \in DOMAIN all_routes |-> all_routes[k].points]))

C8_Witness ==
    /\ pc = "day_done"
    /\ ScenarioA
    /\ Len(all_routes) = 3

\* ------------------------------------------------------------------- C3
\* C3: with an empty point set distribute_visits_by_quarter returns an empty
\* mapping and optimize fails with the "no routes created" error, not with
\* the "no working days" error.
C3_EmptyCatalogueNoRoutes ==
    (pc = "done" /\ points = <<>>) =>
        /\ visits_by_day.keys = <<>>
        /\ result = NoRoutes

\* ------------------------------------------------------------------- C4
AnyPositive == \E p \in DOMAIN points : points[p].frequency > 0

ExpectedVisits ==
    IF AnyPositive
    THEN SumSeq([p \in DOMAIN points |-> points[p].frequency])
    ELSE Len(points)

TotalInstances ==
    SumSeq([k \in DOMAIN visits_by_day.keys |->
               Len(Get(visits_by_day, visits_by_day.keys[k]))])

InstancesOf(p) ==
    SumSeq([k \in DOMAIN visits_by_day.keys |->
               Count(points[p], Get(visits_by_day, visits_by_day.keys[k]))])

\* C4: the mapping distribute_visits_by_quarter returns holds sum(frequency)
\* instances when some frequency is positive and one per point otherwise,
\* point by point; its days are distinct working days (Mon-Fri) of the 90-day
\* horizon, so each instance lies under exactly one of them.
C4_VisitsConserved ==
    pc # "start" =>
        /\ TotalInstances = ExpectedVisits
        /\ \A p \in DOMAIN points :
              InstancesOf(p) = (IF AnyPositive THEN points[p].frequency ELSE 1)
        /\ Cardinality(Range(visits_by_day.keys)) = Len(visits_by_day.keys)
        /\ DOMAIN visits_by_day.val = Range(visits_by_day.keys)
        /\ \A k \in DOMAIN visits_by_day.keys :
              /\ visits_by_day.keys[k] \in 0..89
              /\ (start_dow + visits_by_day.keys[k]) % 7 \in 0..4

C4_Witness ==
    /\ pc = "routes"
    /\ AnyPositive
    /\ \E p \in DOMAIN points : points[p].frequency = 0
    /\ TotalInstances > Len(visits_by_day.keys)

\* ------------------------------------------------------------------- C5
\* the instances on day, none when the mapping has no such key
OnDay(day) ==
    IF HasKey(visits_by_day, day) THEN Get(visits_by_day, day) ELSE <<>>

\* C5: with N instances and D working days, instance i in expansion order is
\* the (i div D)-th entry of working day i mod D; so every working day holds
\* floor(N / D) or ceil(N / D) instances and the days of the mapping differ
\* by at most one in size.
C5_RoundRobin ==
    pc # "start" =>
        LET all_visits == AllVisits(points)
            N == Len(all_visits)
            quarter_days == QuarterDays(start_dow)
            D == Len(quarter_days)
        IN /\ \A i \in 0..(N - 1) :
                 /\ Len(OnDay(quarter_days[(i % D) + 1])) > i \div D
                 /\ OnDay(quarter_days[(i % D) + 1])[(i \div D) + 1]
                       = all_visits[i + 1]
           /\ \A j \in 1..D :
                 Len(OnDay(quarter_days[j])) \in {N \div D, Ceil(N, D)}
           /\ \A k1, k2 \in DOMAIN visits_by_day.keys :
                 Len(Get(visits_by_day, visits_by_day.keys[k1]))
                    - Len(Get(visits_by_day, visits_by_day.keys[k2])) <= 1

C5_Witness ==
    /\ pc = "routes"
    /\ Len(visits_by_day.keys) = Len(QuarterDays(start_dow))
    /\ TotalInstances % Len(QuarterDays(start_dow)) # 0
    /\ \E k \in DOMAIN visits_by_day.keys :
          Len(Get(visits_by_day, visits_by_day.keys[k])) >= 3

\* ------------------------------------------------------------------- C9
PointsOn(routes, day) ==
    LET on == SelectSeq(routes, LAMBDA r : r.date = day)
    IN Flatten([k \in DOMAIN on |-> on[k].points])

\* C9: when optimize succeeds, the routes it returns hold, date by date,
\* exactly the instances distribute_visits_by_quarter put on that date, and
\* summary.total_points is the number of instances and summary.total_routes
\* the number of routes built in step 2.
C9_VisitsReachRoutes ==
    (pc = "done" /\ result.success) =>
        /\ \A k \in DOMAIN visits_by_day.keys :
              SameBag(Get(visits_by_day, visits_by_day.keys[k]),
                      PointsOn(result.routes, visits_by_day.keys[k]))
        /\ \A j \in DOMAIN result.routes :
              HasKey(visits_by_day, result.routes[j].date)
        /\ result.total_points = TotalInstances
        /\ result.total_routes = Len(all_routes)

C9_Witness ==
    /\ pc = "done"
    /\ result.success
    /\ \E j \in DOMAIN result.routes : Len(result.routes[j].points) >= 2
    /\ \E i, j \in DOMAIN result.routes :
          i # j /\ result.routes[i].date = result.routes[j].date

\* ------------------------------------------------------------------ C10
\* C10: every day of the mapping holds an instance, every such day gets a
\* route, and optimize succeeds exactly when the point set is non-empty; its
\* only failure is the "no working days" one, never "no routes created".
C10_NoRoutesUnreachable ==
    /\ pc # "start" =>
          \A k \in DOMAIN visits_by_day.keys :
              Get(visits_by_day, visits_by_day.keys[k]) # <<>>
    /\ pc \in {"assign", "summary", "done"} =>
          Range(visits_by_day.keys)
             \subseteq {all_routes[j].date : j \in DOMAIN all_routes}
    /\ pc = "done" =>
          /\ result.success <=> points # <<>>
          /\ ~result.success => result = NoWorkingDays

C10_Witness ==
    /\ pc = "done"
    /\ points = <<>>
    /\ result = NoWorkingDays

====
